---- MODULE Spec2Model ----
(***************************************************************************)
(* Model of the ShonClub audio-room signaling server: the RoomManager      *)
(* registry, the per-connection handlers of SocketServer and the state of  *)
(* MediasoupBroadcaster that those handlers depend on.                     *)
(***************************************************************************)
EXTENDS Integers, Sequences, FiniteSets, TLC

\* ------------------------------------------------------------------ bounds
MaxConns == 2
MaxRooms == 2
MaxSendReactions == 1
MaxTransports == 2
MaxPending == 1
MaxEvents == 6
MaxReactionRun == 102
MaxVaried == 1
MaxCalls == 6

\* ------------------------------------------------------- program constants
MaxReactions == 100

Fids == {"alice", "bob"}
ReactionTypes == {"like", "laugh", "clap", "fire", "heart"}
ReactionInputs == {"like", "boo"}
Conns == 1..MaxConns
RoomIds == 1..MaxRooms
TransportIds == 1..MaxTransports

NoUser == "undefined"
NoRoom == 0

NameInputs ==
    { [type |-> "string", value |-> "room"],
      [type |-> "string", value |-> ""],
      [type |-> "number", value |-> "42"],
      [type |-> "undefined", value |-> ""],
      [type |-> "no payload", value |-> ""] }

VARIABLES
    rooms,        \* RoomManager.rooms: sequence of Room, the id is the index
    status,       \* per connection: "open" or "closed"
    currentUser,  \* per connection: closure variable currentUser (its fid)
    currentRoom,  \* per connection: closure variable currentRoom (its id)
    joined,       \* per connection: socket.io rooms the socket has joined
    pending,      \* per connection: media calls awaiting the collaborator
    routerReady,  \* MediasoupBroadcaster.router has been assigned
    producers,    \* MediasoupBroadcaster.producers: fid -> "none", "live", "paused"
    consumers,    \* MediasoupBroadcaster.consumers: fid -> number of consumers
    transports,   \* MediasoupBroadcaster.transports: number of entries
    now,          \* clock read by Date.now(), one tick per reaction
    out,          \* notifications emitted by the last step, in order
    last,         \* the event handled by the last step
    handled,      \* number of events handled so far
    creator,      \* history: per room, the identity passed to createRoom
    closedEmits,  \* history: per room, number of room-closed emissions
    calls         \* history: per room, every record addReaction appended

vars == << rooms, status, currentUser, currentRoom, joined, pending,
           routerReady, producers, consumers, transports, now, out, last,
           handled, creator, closedEmits, calls >>

connVars == << status, currentUser, currentRoom, joined >>
mediaVars == << routerReady, producers, consumers, transports >>
histVars == << creator, closedEmits, calls >>

\* --------------------------------------------------------------- RoomManager
Min(a, b) == IF a < b THEN a ELSE b

createRoomHostListens(rs, host) ==
    Append(rs, [ id          |-> Len(rs) + 1,
                 hostFid     |-> host,
                 speakers    |-> {host},
                 listeners   |-> {host},
                 raisedHands |-> {},
                 reactions   |-> << >>,
                 active      |-> TRUE ])

createRoom(rs, host) ==
    Append(rs, [ id          |-> Len(rs) + 1,
                 hostFid     |-> host,
                 speakers    |-> {host},
                 listeners   |-> {},
                 raisedHands |-> {},
                 reactions   |-> << >>,
                 active      |-> TRUE ])

Reaction(type, fid, ts) == [type |-> type, fid |-> fid, timestamp |-> ts]

addReactionDropNewest(rs, roomId, fid, type, ts) ==
    IF roomId \in DOMAIN rs
    THEN LET pushed == Append(rs[roomId].reactions, Reaction(type, fid, ts))
         IN [rs EXCEPT ![roomId].reactions =
                IF Len(pushed) > MaxReactions
                THEN SubSeq(pushed, 1, MaxReactions) ELSE pushed]
    ELSE rs

addReaction(rs, roomId, fid, type, ts) ==
    IF roomId \in DOMAIN rs
    THEN LET pushed == Append(rs[roomId].reactions, Reaction(type, fid, ts))
         IN [rs EXCEPT ![roomId].reactions =
                IF Len(pushed) > MaxReactions THEN Tail(pushed) ELSE pushed]
    ELSE rs

hasRoom(rs, roomId) == roomId \in DOMAIN rs

listRoomsAll(rs) == { rs[i].id : i \in DOMAIN rs }

listRooms(rs) == { rs[i].id : i \in { j \in DOMAIN rs : rs[j].active } }

closeRoomToggle(rs, roomId) ==
    IF roomId \in DOMAIN rs
    THEN [rs EXCEPT ![roomId].active = ~@]
    ELSE rs

closeRoom(rs, roomId) ==
    IF roomId \in DOMAIN rs
    THEN [rs EXCEPT ![roomId].active = FALSE]
    ELSE rs

addSpeakerKeepsListener(rs, roomId, fid) ==
    IF roomId \in DOMAIN rs
    THEN [rs EXCEPT ![roomId].speakers    = @ \cup {fid},
                    ![roomId].raisedHands = @ \ {fid}]
    ELSE rs

addSpeaker(rs, roomId, fid) ==
    IF roomId \in DOMAIN rs
    THEN [rs EXCEPT ![roomId].speakers    = @ \cup {fid},
                    ![roomId].listeners   = @ \ {fid},
                    ![roomId].raisedHands = @ \ {fid}]
    ELSE rs

removeSpeakerNoGuard(rs, roomId, fid) ==
    IF roomId \in DOMAIN rs
    THEN [rs EXCEPT ![roomId].speakers  = @ \ {fid},
                    ![roomId].listeners = @ \cup {fid}]
    ELSE rs

removeSpeaker(rs, roomId, fid) ==
    IF roomId \in DOMAIN rs /\ fid # rs[roomId].hostFid
    THEN [rs EXCEPT ![roomId].speakers  = @ \ {fid},
                    ![roomId].listeners = @ \cup {fid}]
    ELSE rs

raiseHandNoGuard(rs, roomId, fid) ==
    IF roomId \in DOMAIN rs
    THEN [rs EXCEPT ![roomId].raisedHands = @ \cup {fid}]
    ELSE rs

raiseHand(rs, roomId, fid) ==
    IF roomId \in DOMAIN rs /\ fid \notin rs[roomId].speakers
    THEN [rs EXCEPT ![roomId].raisedHands = @ \cup {fid}]
    ELSE rs

lowerHand(rs, roomId, fid) ==
    IF roomId \in DOMAIN rs
    THEN [rs EXCEPT ![roomId].raisedHands = @ \ {fid}]
    ELSE rs

\* ------------------------------------------------------ MediasoupBroadcaster
\* toggleMute up to its first await: a missing producer rejects at once,
\* otherwise producer.pause()/resume() is left outstanding.
toggleMuteLenient(prods, fid) == "pending"

toggleMute(prods, fid) ==
    IF prods[fid] # "none" THEN "pending" ELSE "Producer not found"

\* createConsumer up to its first await.
createConsumer(prods, producerFid) ==
    IF prods[producerFid] # "none" THEN "pending" ELSE "Producer not found"

\* createTransport up to its first await: this.router is undefined until
\* initializeMediasoup has completed.
createTransport(ready) ==
    IF ready THEN "pending" ELSE "TypeError"

\* stopBroadcasting: producers.delete(fid) and consumers.delete(fid).
stopBroadcastingKeepsProducer(prods, fid) == prods

stopBroadcastingProducers(prods, fid) == [prods EXCEPT ![fid] = "none"]

stopBroadcastingConsumers(cons, fid) == [cons EXCEPT ![fid] = 0]

\* ------------------------------------------------------------ notifications
Live(st, c) == st[c] = "open"

\* SocketServer.serializeRoom: room.name and room.tags are never set by
\* RoomManager.createRoom; the order of Array.from(Set) is not modelled.
serializeRoom(room) ==
    [ id          |-> room.id,
      name        |-> "undefined",
      tags        |-> "undefined",
      hostFid     |-> room.hostFid,
      speakers    |-> room.speakers,
      listeners   |-> room.listeners,
      raisedHands |-> room.raisedHands,
      reactions   |-> room.reactions,
      active      |-> room.active ]

\* The room field of a notification that carries no room.
NoData ==
    [ id |-> NoRoom, name |-> "undefined", tags |-> "undefined", hostFid |-> NoUser,
      speakers |-> {}, listeners |-> {}, raisedHands |-> {}, reactions |-> << >>,
      active |-> FALSE ]

toCaller(st, c, ev, fid, info) ==
    [ev |-> ev, kind |-> "caller", to |-> c,
     rcpt |-> IF Live(st, c) THEN {c} ELSE {}, fid |-> fid, info |-> info,
     room |-> NoData]

toRoomFirst(st, jn, roomId, ev, fid, info) ==
    [ev |-> ev, kind |-> "room", to |-> 1,
     rcpt |-> { c \in Conns : Live(st, c) /\ 1 \in jn[c] },
     fid |-> fid, info |-> info, room |-> NoData]

toRoom(st, jn, roomId, ev, fid, info) ==
    [ev |-> ev, kind |-> "room", to |-> roomId,
     rcpt |-> { c \in Conns : Live(st, c) /\ roomId \in jn[c] },
     fid |-> fid, info |-> info, room |-> NoData]

toAll(st, ev, fid, info) ==
    [ev |-> ev, kind |-> "all", to |-> 0,
     rcpt |-> { c \in Conns : Live(st, c) }, fid |-> fid, info |-> info,
     room |-> NoData]

\* The notification e with the serialized room as (part of) its payload.
carrying(e, room) == [e EXCEPT !.room = serializeRoom(room)]

Event(c, ev, fid, room, flag, threw) ==
    [conn |-> c, ev |-> ev, fid |-> fid, room |-> room, flag |-> flag,
     threw |-> threw]

Authenticated(c) == currentUser[c] # NoUser
Bound(c) == currentRoom[c] # NoRoom

\* The guard of every room-scoped handler: if (!currentUser || !currentRoom) return
DroppedUnlessIdentified(c) == ~Authenticated(c)

Dropped(c) == ~Authenticated(c) \/ ~Bound(c)

PendingTransports ==
    Cardinality({ c \in Conns : \E p \in pending[c] :
                     p.op \in {"connect-transport", "start-consuming"} })

\* ----------------------------------------------------------------- initial
Init ==
    /\ rooms = << >>
    /\ status = [c \in Conns |-> "open"]
    /\ currentUser = [c \in Conns |-> NoUser]
    /\ currentRoom = [c \in Conns |-> NoRoom]
    /\ joined = [c \in Conns |-> {}]
    /\ pending = [c \in Conns |-> {}]
    /\ routerReady = FALSE
    /\ producers = [f \in Fids |-> "none"]
    /\ consumers = [f \in Fids |-> 0]
    /\ transports = 0
    /\ now = 0
    /\ out = << >>
    /\ last = Event(0, "init", "-", 0, FALSE, FALSE)
    /\ handled = 0
    /\ creator = << >>
    /\ closedEmits = << >>
    /\ calls = << >>

\* ------------------------------------------------------------- connections
\* One more event is taken off the queue.
Handle ==
    /\ handled < MaxEvents
    /\ handled' = handled + 1

\* MediasoupBroadcaster.initializeMediasoup completes: this.router is set.
InitializeMediasoup ==
    /\ ~routerReady
    /\ routerReady' = TRUE
    /\ out' = << >>
    /\ Handle
    /\ last' = Event(0, "initializeMediasoup", "-", 0, FALSE, FALSE)
    /\ UNCHANGED << rooms, now, pending, producers, consumers, transports >>
    /\ UNCHANGED connVars
    /\ UNCHANGED histVars

Authenticate(c, fid) ==
    /\ status[c] = "open"
    /\ Handle
    /\ currentUser' = [currentUser EXCEPT ![c] = fid]
    /\ out' = << toCaller(status, c, "authenticated", "-", "success") >>
    /\ last' = Event(c, "authenticate", fid, 0, FALSE, FALSE)
    /\ UNCHANGED << rooms, status, currentRoom, joined, pending, now >>
    /\ UNCHANGED mediaVars
    /\ UNCHANGED histVars

\* !name || typeof name !== 'string'
BadName(name) ==
    \/ name.type = "undefined"
    \/ (name.type = "string" /\ name.value = "")
    \/ name.type # "string"

\* The handler's parameter ({ name, tags = [] }) is destructured before its
\* body runs: an event without payload throws a TypeError there.
NoPayload(name) == name.type = "no payload"

CreateRoom(c, name) ==
    /\ status[c] = "open"
    /\ Handle
    /\ last' = Event(c, "create-room", "-", 0, BadName(name), NoPayload(name))
    /\ UNCHANGED << status, currentUser, pending, now >>
    /\ UNCHANGED mediaVars
    /\ IF NoPayload(name) \/ ~Authenticated(c)
       THEN /\ out' = << >>
            /\ UNCHANGED << rooms, currentRoom, joined, creator, closedEmits, calls >>
       ELSE IF BadName(name)
       THEN /\ out' = << toCaller(status, c, "error", "-", "Room name is required") >>
            /\ UNCHANGED << rooms, currentRoom, joined, creator, closedEmits, calls >>
       ELSE /\ Len(rooms) < MaxRooms
            /\ LET id == Len(rooms) + 1
                   jn == [joined EXCEPT ![c] = @ \cup {id}]
                   rs == createRoom(rooms, currentUser[c])
               IN /\ rooms' = rs
                  /\ joined' = jn
                  /\ currentRoom' = [currentRoom EXCEPT ![c] = id]
                  /\ creator' = Append(creator, currentUser[c])
                  /\ closedEmits' = Append(closedEmits, 0)
                  /\ calls' = Append(calls, << >>)
                  /\ out' = << carrying(toAll(status, "room-created", currentUser[c], "room"),
                                        rs[id]),
                               carrying(toCaller(status, c, "joined-room", currentUser[c], "host"),
                                        rs[id]) >>

\* join-room's test of the looked-up room: !room || !room.active fails.
joinableWhenClosed(rs, roomId) == hasRoom(rs, roomId)

joinable(rs, roomId) ==
    IF hasRoom(rs, roomId) THEN rs[roomId].active ELSE FALSE

\* join-room's role: room.speakers.has(currentUser.fid) ? 'speaker' : 'listener'
roleAlwaysListener(room, fid) == "listener"

roleOf(room, fid) ==
    IF fid \in room.speakers THEN "speaker" ELSE "listener"

JoinRoom(c, roomId) ==
    /\ status[c] = "open"
    /\ Handle
    /\ last' = Event(c, "join-room", "-", roomId, FALSE, FALSE)
    /\ UNCHANGED << status, currentUser, pending, now >>
    /\ UNCHANGED mediaVars
    /\ UNCHANGED histVars
    /\ IF ~Authenticated(c)
       THEN /\ out' = << >>
            /\ UNCHANGED << rooms, currentRoom, joined >>
       ELSE IF ~joinable(rooms, roomId)
       THEN /\ out' = << toCaller(status, c, "error", "-", "Room not found or inactive") >>
            /\ UNCHANGED << rooms, currentRoom, joined >>
       ELSE LET fid == currentUser[c]
                jn == [joined EXCEPT ![c] = @ \cup {roomId}]
                role == roleOf(rooms[roomId], fid)
                rs == [rooms EXCEPT ![roomId].listeners = @ \cup {fid}]
            IN /\ joined' = jn
               /\ currentRoom' = [currentRoom EXCEPT ![c] = roomId]
               /\ rooms' = rs
               /\ out' = << carrying(toCaller(status, c, "joined-room", fid, role),
                                     rs[roomId]),
                            toRoom(status, jn, roomId, "user-joined", fid, role) >>

RaiseHand(c) ==
    /\ status[c] = "open"
    /\ Handle
    /\ last' = Event(c, "raise-hand", "-", 0, FALSE, FALSE)
    /\ UNCHANGED << pending, now >>
    /\ UNCHANGED connVars
    /\ UNCHANGED mediaVars
    /\ UNCHANGED histVars
    /\ IF Dropped(c)
       THEN /\ out' = << >>
            /\ UNCHANGED rooms
       ELSE /\ rooms' = raiseHand(rooms, currentRoom[c], currentUser[c])
            /\ out' = << toRoom(status, joined, currentRoom[c], "hand-raised", currentUser[c], "-") >>

LowerHand(c) ==
    /\ status[c] = "open"
    /\ Handle
    /\ last' = Event(c, "lower-hand", "-", 0, FALSE, FALSE)
    /\ UNCHANGED << pending, now >>
    /\ UNCHANGED connVars
    /\ UNCHANGED mediaVars
    /\ UNCHANGED histVars
    /\ IF Dropped(c)
       THEN /\ out' = << >>
            /\ UNCHANGED rooms
       ELSE /\ rooms' = lowerHand(rooms, currentRoom[c], currentUser[c])
            /\ out' = << toRoom(status, joined, currentRoom[c], "hand-lowered", currentUser[c], "-") >>

NotHostNever(rs, roomId, fid) == FALSE

\* currentRoom.hostFid !== currentUser.fid
NotHost(rs, roomId, fid) == rs[roomId].hostFid # fid

PromoteToSpeaker(c, targetFid) ==
    /\ status[c] = "open"
    /\ Handle
    /\ last' = Event(c, "promote-to-speaker", targetFid, 0, FALSE, FALSE)
    /\ UNCHANGED << pending, now >>
    /\ UNCHANGED connVars
    /\ UNCHANGED mediaVars
    /\ UNCHANGED histVars
    /\ IF Dropped(c)
       THEN /\ out' = << >>
            /\ UNCHANGED rooms
       ELSE IF NotHost(rooms, currentRoom[c], currentUser[c])
       THEN /\ out' = << toCaller(status, c, "error", "-", "Only host can promote speakers") >>
            /\ UNCHANGED rooms
       ELSE /\ rooms' = addSpeaker(rooms, currentRoom[c], targetFid)
            /\ out' = << toRoom(status, joined, currentRoom[c], "user-promoted", targetFid, "-") >>

DemoteSpeaker(c, targetFid) ==
    /\ status[c] = "open"
    /\ Handle
    /\ last' = Event(c, "demote-speaker", targetFid, 0, FALSE, FALSE)
    /\ UNCHANGED << pending, now >>
    /\ UNCHANGED connVars
    /\ UNCHANGED mediaVars
    /\ UNCHANGED histVars
    /\ IF Dropped(c)
       THEN /\ out' = << >>
            /\ UNCHANGED rooms
       ELSE IF NotHost(rooms, currentRoom[c], currentUser[c])
       THEN /\ out' = << toCaller(status, c, "error", "-", "Only host can demote speakers") >>
            /\ UNCHANGED rooms
       ELSE /\ rooms' = removeSpeaker(rooms, currentRoom[c], targetFid)
            /\ out' = << toRoom(status, joined, currentRoom[c], "user-demoted", targetFid, "-") >>

\* ------------------------------------------------------------ media events
\* room is history: the room the session was bound to when the event came in
\* (recorded for toggle-mute only; the handler itself keeps no such copy).
PendingCall(op, fid, flag, stage) ==
    [op |-> op, fid |-> fid, flag |-> flag, stage |-> stage, room |-> NoRoom]

receivedIn(p, roomId) == [p EXCEPT !.room = roomId]

CanSuspend(c) == Cardinality(pending[c]) < MaxPending

ToggleMute(c, muted) ==
    /\ status[c] = "open"
    /\ Handle
    /\ last' = Event(c, "toggle-mute", "-", 0, FALSE, FALSE)
    /\ UNCHANGED << rooms, now >>
    /\ UNCHANGED connVars
    /\ UNCHANGED mediaVars
    /\ UNCHANGED histVars
    /\ IF Dropped(c)
       THEN /\ out' = << >>
            /\ UNCHANGED pending
       ELSE IF currentUser[c] \notin rooms[currentRoom[c]].speakers
       THEN /\ out' = << toCaller(status, c, "error", "-", "Only speakers can toggle mute") >>
            /\ UNCHANGED pending
       ELSE IF toggleMute(producers, currentUser[c]) # "pending"
       THEN /\ out' = << toCaller(status, c, "error", "-", "Failed to toggle mute") >>
            /\ UNCHANGED pending
       ELSE /\ CanSuspend(c)
            /\ pending' = [pending EXCEPT ![c] =
                              @ \cup {receivedIn(PendingCall("toggle-mute", currentUser[c],
                                                              muted, 1),
                                                  currentRoom[c])}]
            /\ out' = << >>

\* producer.pause()/resume() settles and the handler resumes after its await;
\* currentRoom and currentUser are read at that moment.
ToggleMuteDone(c, p, ok) ==
    /\ p \in pending[c]
    /\ p.op = "toggle-mute"
    /\ pending' = [pending EXCEPT ![c] = @ \ {p}]
    /\ Handle
    /\ last' = Event(c, "toggle-mute-done", p.fid, p.room, p.flag, FALSE)
    /\ UNCHANGED << rooms, now, routerReady, consumers, transports >>
    /\ UNCHANGED connVars
    /\ UNCHANGED histVars
    /\ IF ok
       THEN /\ producers' = IF producers[p.fid] # "none"
                            THEN [producers EXCEPT ![p.fid] =
                                     IF p.flag THEN "paused" ELSE "live"]
                            ELSE producers
            /\ out' = << toRoom(status, joined, currentRoom[c], "user-muted",
                                currentUser[c], IF p.flag THEN "muted" ELSE "unmuted") >>
       ELSE /\ UNCHANGED producers
            /\ out' = << toCaller(status, c, "error", "-", "Failed to toggle mute") >>

ConnectTransport(c) ==
    /\ status[c] = "open"
    /\ Handle
    /\ last' = Event(c, "connect-transport", "-", 0, FALSE, FALSE)
    /\ UNCHANGED << rooms, now >>
    /\ UNCHANGED connVars
    /\ UNCHANGED mediaVars
    /\ UNCHANGED histVars
    /\ IF createTransport(routerReady) # "pending"
       THEN /\ out' = << toCaller(status, c, "error", "-", "Failed to connect transport") >>
            /\ UNCHANGED pending
       ELSE /\ CanSuspend(c)
            /\ transports + PendingTransports < MaxTransports
            /\ pending' = [pending EXCEPT ![c] =
                              @ \cup {PendingCall("connect-transport", currentUser[c], FALSE, 1)}]
            /\ out' = << >>

\* router.createWebRtcTransport settles: transports.set, then the handler emits.
ConnectTransportDone(c, p, ok) ==
    /\ p \in pending[c]
    /\ p.op = "connect-transport"
    /\ pending' = [pending EXCEPT ![c] = @ \ {p}]
    /\ Handle
    /\ last' = Event(c, "connect-transport-done", p.fid, 0, ok, FALSE)
    /\ UNCHANGED << rooms, now, routerReady, producers, consumers >>
    /\ UNCHANGED connVars
    /\ UNCHANGED histVars
    /\ IF ok
       THEN /\ transports' = transports + 1
            /\ out' = << toCaller(status, c, "transport-connected", "-", "transport") >>
       ELSE /\ UNCHANGED transports
            /\ out' = << toCaller(status, c, "error", "-", "Failed to connect transport") >>

StartConsuming(c, producerFid) ==
    /\ status[c] = "open"
    /\ Handle
    /\ last' = Event(c, "start-consuming", "-", 0, FALSE, FALSE)
    /\ UNCHANGED << rooms, now >>
    /\ UNCHANGED connVars
    /\ UNCHANGED mediaVars
    /\ UNCHANGED histVars
    /\ IF Dropped(c)
       THEN /\ out' = << >>
            /\ UNCHANGED pending
       ELSE IF createConsumer(producers, producerFid) # "pending"
       THEN /\ out' = << toCaller(status, c, "error", "-", "Failed to create consumer") >>
            /\ UNCHANGED pending
       ELSE /\ CanSuspend(c)
            /\ transports + PendingTransports < MaxTransports
            /\ pending' = [pending EXCEPT ![c] =
                              @ \cup {PendingCall("start-consuming", currentUser[c], FALSE, 1)}]
            /\ out' = << >>

\* createConsumer resumes: stage 1 is createWebRtcTransport (transports.set),
\* stage 2 is transport.consume (consumers push), then the handler emits.
StartConsumingDone(c, p, ok) ==
    /\ p \in pending[c]
    /\ p.op = "start-consuming"
    /\ Handle
    /\ last' = Event(c, "start-consuming-done", p.fid, p.stage, ok, FALSE)
    /\ UNCHANGED << rooms, now, routerReady, producers >>
    /\ UNCHANGED connVars
    /\ UNCHANGED histVars
    /\ IF ~ok
       THEN /\ pending' = [pending EXCEPT ![c] = @ \ {p}]
            /\ UNCHANGED << transports, consumers >>
            /\ out' = << toCaller(status, c, "error", "-", "Failed to create consumer") >>
       ELSE IF p.stage = 1
       THEN /\ pending' = [pending EXCEPT ![c] =
                              (@ \ {p}) \cup {PendingCall(p.op, p.fid, p.flag, 2)}]
            /\ transports' = transports + 1
            /\ UNCHANGED consumers
            /\ out' = << >>
       ELSE /\ pending' = [pending EXCEPT ![c] = @ \ {p}]
            /\ consumers' = [consumers EXCEPT ![p.fid] = @ + 1]
            /\ UNCHANGED transports
            /\ out' = << toCaller(status, c, "consumer-created", "-", "consumer") >>

\* MediasoupBroadcaster.handleProducer, called on the broadcaster directly.
HandleProducer(fid, transportId) ==
    /\ Handle
    /\ last' = Event(0, "handleProducer", fid, transportId, FALSE, transportId > transports)
    /\ out' = << >>
    /\ producers' = IF transportId > transports
                    THEN producers
                    ELSE [producers EXCEPT ![fid] = "live"]
    /\ UNCHANGED << rooms, now, pending, routerReady, consumers, transports >>
    /\ UNCHANGED connVars
    /\ UNCHANGED histVars

\* ---------------------------------------------------------------- reactions
SendReaction(c, type) ==
    /\ status[c] = "open"
    /\ Handle
    /\ last' = Event(c, "send-reaction", "-", 0, type \in ReactionTypes, FALSE)
    /\ UNCHANGED << pending, creator, closedEmits >>
    /\ UNCHANGED connVars
    /\ UNCHANGED mediaVars
    /\ IF Dropped(c)
       THEN /\ out' = << >>
            /\ UNCHANGED << rooms, now, calls >>
       ELSE IF type \notin ReactionTypes
       THEN /\ out' = << toCaller(status, c, "error", "-", "Invalid reaction type") >>
            /\ UNCHANGED << rooms, now, calls >>
       ELSE /\ now < MaxSendReactions
            /\ rooms' = addReaction(rooms, currentRoom[c], currentUser[c], type, now)
            /\ calls' = [calls EXCEPT ![currentRoom[c]] =
                            Append(@, Reaction(type, currentUser[c], now))]
            /\ now' = now + 1
            /\ out' = << toRoom(status, joined, currentRoom[c], "reaction-received",
                                currentUser[c], type) >>

\* --------------------------------------------------------------- disconnect
\* currentRoom?.hostFid and currentUser?.fid, undefined when the variable is unset
HostFidOf(c) == IF Bound(c) THEN rooms[currentRoom[c]].hostFid ELSE NoUser

StopOutcomes(fid) ==
    {"ok"} \cup (IF producers[fid] # "none" THEN {"producer.close throws"} ELSE {})
           \cup (IF consumers[fid] > 0 THEN {"consumer.close throws"} ELSE {})

\* socket.io has already left every room and marked the socket disconnected
\* when the 'disconnect' listener runs.
Disconnect(c, stop) ==
    /\ status[c] = "open"
    /\ handled < MaxEvents
    /\ IF Authenticated(c) /\ Bound(c)
       THEN stop \in StopOutcomes(currentUser[c])
       ELSE stop = "ok"
    /\ LET st == [status EXCEPT ![c] = "closed"]
           jn == [joined EXCEPT ![c] = {}]
           isHost == HostFidOf(c) = currentUser[c]
           r == currentRoom[c]
           fid == currentUser[c]
       IN /\ status' = st
          /\ joined' = jn
          /\ UNCHANGED << currentUser, currentRoom, pending, now, routerReady,
                          transports, creator, calls >>
          /\ IF isHost /\ ~Bound(c)
             THEN \* currentRoom.id on undefined: TypeError
                  /\ stop = "ok"
                  /\ Handle
                  /\ last' = Event(c, "disconnect", "-", 0, FALSE, TRUE)
                  /\ out' = << >>
                  /\ UNCHANGED << rooms, producers, consumers, closedEmits >>
             ELSE LET closing == IF isHost
                                 THEN << toRoom(st, jn, r, "room-closed", "-", "-") >>
                                 ELSE << >>
                  IN /\ rooms' = IF isHost THEN closeRoom(rooms, r) ELSE rooms
                     /\ closedEmits' = IF isHost
                                       THEN [closedEmits EXCEPT ![r] = @ + 1]
                                       ELSE closedEmits
                     /\ Handle
                     /\ IF Authenticated(c) /\ Bound(c)
                        THEN /\ stop \in StopOutcomes(fid)
                             /\ producers' = IF stop = "producer.close throws"
                                             THEN producers
                                             ELSE stopBroadcastingProducers(producers, fid)
                             /\ consumers' = IF stop = "ok"
                                             THEN stopBroadcastingConsumers(consumers, fid)
                                             ELSE consumers
                             /\ last' = Event(c, "disconnect", "-", r, isHost, stop # "ok")
                             /\ out' = IF stop = "ok"
                                       THEN closing \o << toRoom(st, jn, r, "user-left", fid, "-") >>
                                       ELSE closing
                        ELSE /\ stop = "ok"
                             /\ last' = Event(c, "disconnect", "-", r, isHost, FALSE)
                             /\ out' = closing
                             /\ UNCHANGED << producers, consumers >>

\* ------------------------------------------------------------ specification
\* The server as wired by index.ts: SocketServer never calls handleProducer,
\* so producers stays empty and toggleMute/createConsumer reject at once.
\* ToggleMuteDone, StartConsumingDone and HandleProducer need a producer and
\* are therefore no disjuncts of this next-state relation; NextMedia has them.
Next ==
    \/ InitializeMediasoup
    \/ \E c \in Conns, fid \in Fids : Authenticate(c, fid)
    \/ \E c \in Conns, name \in NameInputs : CreateRoom(c, name)
    \/ \E c \in Conns, roomId \in RoomIds : JoinRoom(c, roomId)
    \/ \E c \in Conns : RaiseHand(c)
    \/ \E c \in Conns : LowerHand(c)
    \/ \E c \in Conns, targetFid \in Fids : PromoteToSpeaker(c, targetFid)
    \/ \E c \in Conns, targetFid \in Fids : DemoteSpeaker(c, targetFid)
    \/ \E c \in Conns, muted \in BOOLEAN : ToggleMute(c, muted)
    \/ \E c \in Conns : ConnectTransport(c)
    \/ \E c \in Conns, ok \in BOOLEAN : \E p \in pending[c] : ConnectTransportDone(c, p, ok)
    \/ \E c \in Conns, producerFid \in Fids : StartConsuming(c, producerFid)
    \/ \E c \in Conns, type \in ReactionInputs : SendReaction(c, type)
    \/ \E c \in Conns, stop \in {"ok", "producer.close throws", "consumer.close throws"} :
          Disconnect(c, stop)

Spec == Init /\ [][Next]_vars

\* ------------------------------------------- RoomManager driven on its own
\* The registry as RoomManager.test.ts drives it: one room, then addReaction
\* calls.  At most MaxVaried calls carry arguments other than DefaultCall.
DefaultCall == << "alice", "like" >>
ReactionCallInputs == { DefaultCall, << "bob", "heart" >> }

VariedCalls(r) ==
    Cardinality({ i \in DOMAIN calls[r] :
                     << calls[r][i].fid, calls[r][i].type >> # DefaultCall })

InitReactions ==
    /\ \E host \in Fids :
          /\ rooms = createRoom(<< >>, host)
          /\ creator = << host >>
    /\ closedEmits = << 0 >>
    /\ calls = << << >> >>
    /\ status = [c \in Conns |-> "open"]
    /\ currentUser = [c \in Conns |-> NoUser]
    /\ currentRoom = [c \in Conns |-> NoRoom]
    /\ joined = [c \in Conns |-> {}]
    /\ pending = [c \in Conns |-> {}]
    /\ routerReady = FALSE
    /\ producers = [f \in Fids |-> "none"]
    /\ consumers = [f \in Fids |-> 0]
    /\ transports = 0
    /\ now = 0
    /\ out = << >>
    /\ last = Event(0, "createRoom", "-", 1, FALSE, FALSE)
    /\ handled = 0

AddReactionCall(roomId, fid, type) ==
    /\ now < MaxReactionRun
    /\ IF roomId \in DOMAIN rooms /\ << fid, type >> # DefaultCall
       THEN VariedCalls(roomId) < MaxVaried
       ELSE TRUE
    /\ rooms' = addReaction(rooms, roomId, fid, type, now)
    /\ calls' = IF roomId \in DOMAIN rooms
                THEN [calls EXCEPT ![roomId] = Append(@, Reaction(type, fid, now))]
                ELSE calls
    /\ now' = IF roomId \in DOMAIN rooms THEN now + 1 ELSE now
    /\ last' = Event(0, "addReaction", "-", roomId, roomId \in DOMAIN rooms, FALSE)
    /\ UNCHANGED << pending, out, handled, creator, closedEmits >>
    /\ UNCHANGED connVars
    /\ UNCHANGED mediaVars

NextReactions ==
    \E roomId \in {1, 2}, call \in ReactionCallInputs :
        AddReactionCall(roomId, call[1], call[2])

SpecReactions == InitReactions /\ [][NextReactions]_vars

\* -------------------------------------- RoomManager's API called directly
\* Every public method of RoomManager except addReaction, with any registered
\* or unregistered room id, as RoomManager.test.ts calls them.
InitRegistry ==
    /\ rooms = << >>
    /\ status = [c \in Conns |-> "open"]
    /\ currentUser = [c \in Conns |-> NoUser]
    /\ currentRoom = [c \in Conns |-> NoRoom]
    /\ joined = [c \in Conns |-> {}]
    /\ pending = [c \in Conns |-> {}]
    /\ routerReady = FALSE
    /\ producers = [f \in Fids |-> "none"]
    /\ consumers = [f \in Fids |-> 0]
    /\ transports = 0
    /\ now = 0
    /\ out = << >>
    /\ last = Event(0, "init", "-", 0, FALSE, FALSE)
    /\ handled = 0
    /\ creator = << >>
    /\ closedEmits = << >>
    /\ calls = << >>

\* One more call is made; only rooms and the history change.
RegistryCall ==
    /\ handled < MaxCalls
    /\ handled' = handled + 1
    /\ out' = << >>
    /\ UNCHANGED << pending, now >>
    /\ UNCHANGED connVars
    /\ UNCHANGED mediaVars

CreateRoomCall(host) ==
    /\ RegistryCall
    /\ Len(rooms) < MaxRooms
    /\ rooms' = createRoom(rooms, host)
    /\ creator' = Append(creator, host)
    /\ closedEmits' = Append(closedEmits, 0)
    /\ calls' = Append(calls, << >>)
    /\ last' = Event(0, "createRoom", host, Len(rooms) + 1, FALSE, FALSE)

\* last.flag: the room was registered and active when closeRoom was called.
CloseRoomCall(roomId) ==
    /\ RegistryCall
    /\ rooms' = closeRoom(rooms, roomId)
    /\ last' = Event(0, "closeRoom", "-", roomId,
                     IF hasRoom(rooms, roomId) THEN rooms[roomId].active ELSE FALSE,
                     FALSE)
    /\ UNCHANGED histVars

\* last.flag: fid was a listener or had its hand raised when addSpeaker was called.
AddSpeakerCall(roomId, fid) ==
    /\ RegistryCall
    /\ rooms' = addSpeaker(rooms, roomId, fid)
    /\ last' = Event(0, "addSpeaker", fid, roomId,
                     IF hasRoom(rooms, roomId)
                     THEN fid \in rooms[roomId].listeners \cup rooms[roomId].raisedHands
                     ELSE FALSE,
                     FALSE)
    /\ UNCHANGED histVars

\* last.flag: fid was a speaker when removeSpeaker was called.
RemoveSpeakerCall(roomId, fid) ==
    /\ RegistryCall
    /\ rooms' = removeSpeaker(rooms, roomId, fid)
    /\ last' = Event(0, "removeSpeaker", fid, roomId,
                     IF hasRoom(rooms, roomId)
                     THEN fid \in rooms[roomId].speakers
                     ELSE FALSE,
                     FALSE)
    /\ UNCHANGED histVars

RaiseHandCall(roomId, fid) ==
    /\ RegistryCall
    /\ rooms' = raiseHand(rooms, roomId, fid)
    /\ last' = Event(0, "raiseHand", fid, roomId, FALSE, FALSE)
    /\ UNCHANGED histVars

LowerHandCall(roomId, fid) ==
    /\ RegistryCall
    /\ rooms' = lowerHand(rooms, roomId, fid)
    /\ last' = Event(0, "lowerHand", fid, roomId, FALSE, FALSE)
    /\ UNCHANGED histVars

NextRegistry ==
    \/ \E host \in Fids : CreateRoomCall(host)
    \/ \E roomId \in RoomIds : CloseRoomCall(roomId)
    \/ \E roomId \in RoomIds, fid \in Fids : AddSpeakerCall(roomId, fid)
    \/ \E roomId \in RoomIds, fid \in Fids : RemoveSpeakerCall(roomId, fid)
    \/ \E roomId \in RoomIds, fid \in Fids : RaiseHandCall(roomId, fid)
    \/ \E roomId \in RoomIds, fid \in Fids : LowerHandCall(roomId, fid)

SpecRegistry == InitRegistry /\ [][NextRegistry]_vars

\* ------------------------------- MediasoupBroadcaster's API called directly
\* The broadcaster as MediasoupBroadcaster.test.ts drives it: every call is
\* awaited before the next one is made.
InitBroadcaster == Init

\* What the caller of a rejected call receives: the thrown error's message.
rejection(message) ==
    [ev |-> "rejected", kind |-> "caller", to |-> 0, rcpt |-> {}, fid |-> "-",
     info |-> message, room |-> NoData]

\* One more call is made; only the broadcaster's own state changes.
BroadcasterCall ==
    /\ Handle
    /\ UNCHANGED << rooms, now, pending >>
    /\ UNCHANGED connVars
    /\ UNCHANGED histVars

CreateTransportCall ==
    /\ BroadcasterCall
    /\ UNCHANGED << routerReady, producers, consumers >>
    /\ IF createTransport(routerReady) # "pending"
       THEN /\ last' = Event(0, "createTransport", "-", 0, FALSE, TRUE)
            /\ out' = << rejection(createTransport(routerReady)) >>
            /\ UNCHANGED transports
       ELSE /\ transports < MaxTransports
            /\ transports' = transports + 1
            /\ last' = Event(0, "createTransport", "-", 0, FALSE, FALSE)
            /\ out' = << >>

CreateConsumerCall(consumerFid, producerFid) ==
    /\ BroadcasterCall
    /\ UNCHANGED << routerReady, producers >>
    /\ IF createConsumer(producers, producerFid) # "pending"
       THEN /\ last' = Event(0, "createConsumer", consumerFid, 0, FALSE, TRUE)
            /\ out' = << rejection(createConsumer(producers, producerFid)) >>
            /\ UNCHANGED << transports, consumers >>
       ELSE /\ transports < MaxTransports
            /\ transports' = transports + 1
            /\ consumers' = [consumers EXCEPT ![consumerFid] = @ + 1]
            /\ last' = Event(0, "createConsumer", consumerFid, 0, FALSE, FALSE)
            /\ out' = << >>

ToggleMuteCall(fid, muted) ==
    /\ BroadcasterCall
    /\ UNCHANGED << routerReady, consumers, transports >>
    /\ IF toggleMute(producers, fid) # "pending"
       THEN /\ last' = Event(0, "toggleMute", fid, 0, muted, TRUE)
            /\ out' = << rejection(toggleMute(producers, fid)) >>
            /\ UNCHANGED producers
       ELSE /\ producers' = [producers EXCEPT ![fid] = IF muted THEN "paused" ELSE "live"]
            /\ last' = Event(0, "toggleMute", fid, 0, muted, FALSE)
            /\ out' = << >>

\* last.flag: the identity had a producer or consumers when the call was made.
StopBroadcastingCall(fid, stop) ==
    /\ BroadcasterCall
    /\ stop \in StopOutcomes(fid)
    /\ UNCHANGED << routerReady, transports >>
    /\ producers' = IF stop = "producer.close throws"
                    THEN producers
                    ELSE stopBroadcastingProducers(producers, fid)
    /\ consumers' = IF stop = "ok"
                    THEN stopBroadcastingConsumers(consumers, fid)
                    ELSE consumers
    /\ last' = Event(0, "stopBroadcasting", fid, 0,
                     producers[fid] # "none" \/ consumers[fid] > 0, stop # "ok")
    /\ out' = IF stop = "ok" THEN << >> ELSE << rejection(stop) >>

NextBroadcaster ==
    \/ InitializeMediasoup
    \/ CreateTransportCall
    \/ \E fid \in Fids, transportId \in TransportIds : HandleProducer(fid, transportId)
    \/ \E consumerFid \in Fids, producerFid \in Fids :
          CreateConsumerCall(consumerFid, producerFid)
    \/ \E fid \in Fids, muted \in BOOLEAN : ToggleMuteCall(fid, muted)
    \/ \E fid \in Fids, stop \in {"ok", "producer.close throws", "consumer.close throws"} :
          StopBroadcastingCall(fid, stop)

SpecBroadcaster == InitBroadcaster /\ [][NextBroadcaster]_vars

\* ------------------------------------------- the server with live producers
\* The server after conn 1 (alice) has created room 1, conn 2 has
\* authenticated and has or has not joined room 1, and one connect-transport
\* has completed; the media client then registers producers through
\* MediasoupBroadcaster.handleProducer.
HostConn == 1
GuestConn == 2

InitMedia ==
    /\ \E guest \in Fids, guestJoined \in BOOLEAN :
          LET bound == IF guestJoined THEN {HostConn, GuestConn} ELSE {HostConn}
          IN /\ rooms = IF guestJoined
                        THEN [createRoom(<< >>, "alice") EXCEPT
                                 ![1].listeners = @ \cup {guest}]
                        ELSE createRoom(<< >>, "alice")
             /\ currentUser = [c \in Conns |-> IF c = HostConn THEN "alice"
                                               ELSE IF c = GuestConn THEN guest
                                               ELSE NoUser]
             /\ currentRoom = [c \in Conns |-> IF c \in bound THEN 1 ELSE NoRoom]
             /\ joined = [c \in Conns |-> IF c \in bound THEN {1} ELSE {}]
    /\ status = [c \in Conns |-> "open"]
    /\ pending = [c \in Conns |-> {}]
    /\ routerReady = TRUE
    /\ producers = [f \in Fids |-> "none"]
    /\ consumers = [f \in Fids |-> 0]
    /\ transports = 1
    /\ now = 0
    /\ out = << >>
    /\ last = Event(0, "init", "-", 0, FALSE, FALSE)
    /\ handled = 0
    /\ creator = << "alice" >>
    /\ closedEmits = << 0 >>
    /\ calls = << << >> >>

NextMedia ==
    \/ \E fid \in Fids, transportId \in TransportIds : HandleProducer(fid, transportId)
    \/ \E c \in Conns, muted \in BOOLEAN : ToggleMute(c, muted)
    \/ \E c \in Conns, ok \in BOOLEAN : \E p \in pending[c] : ToggleMuteDone(c, p, ok)
    \/ \E c \in Conns, producerFid \in Fids : StartConsuming(c, producerFid)
    \/ \E c \in Conns, ok \in BOOLEAN : \E p \in pending[c] : StartConsumingDone(c, p, ok)
    \/ \E c \in Conns, name \in NameInputs : CreateRoom(c, name)
    \/ \E c \in Conns, targetFid \in Fids : PromoteToSpeaker(c, targetFid)
    \/ \E c \in Conns, targetFid \in Fids : DemoteSpeaker(c, targetFid)
    \/ \E c \in Conns, stop \in {"ok", "producer.close throws", "consumer.close throws"} :
          Disconnect(c, stop)

SpecMedia == InitMedia /\ [][NextMedia]_vars

\* =================================================================== claims
Membership(rs, r) == << rs[r].speakers, rs[r].listeners, rs[r].raisedHands >>
OutEvents == { out[i].ev : i \in DOMAIN out }
\* The step just taken handled an event of connection c.
Handled(c) == handled' # handled /\ last'.conn = c

\* C1: in every room, speakers and listeners are disjoint after any sequence
\* of dispatcher events, also after join-room by an identity that already
\* is a speaker of the room.
SpeakersListenersDisjoint ==
    \A r \in DOMAIN rooms : rooms[r].speakers \cap rooms[r].listeners = {}

\* C2: in every room, hostFid is a speaker and is the identity that created
\* the room; demoting the host never removes it from speakers.
HostAlwaysSpeaker ==
    \A r \in DOMAIN rooms :
        /\ rooms[r].hostFid \in rooms[r].speakers
        /\ rooms[r].hostFid = creator[r]

\* C2 witness: the host has just issued demote-speaker against itself.
HostDemoteAttempted ==
    /\ last.ev = "demote-speaker"
    /\ Bound(last.conn)
    /\ currentUser[last.conn] = rooms[currentRoom[last.conn]].hostFid
    /\ last.fid = rooms[currentRoom[last.conn]].hostFid
    /\ "user-demoted" \in OutEvents

\* C3: in every room, speakers and raisedHands are disjoint.
SpeakersRaisedHandsDisjoint ==
    \A r \in DOMAIN rooms : rooms[r].speakers \cap rooms[r].raisedHands = {}

\* C3 witness: a speaker has just issued raise-hand in its room.
SpeakerRaisedHand ==
    /\ last.ev = "raise-hand"
    /\ Authenticated(last.conn)
    /\ Bound(last.conn)
    /\ currentUser[last.conn] \in rooms[currentRoom[last.conn]].speakers
    /\ "hand-raised" \in OutEvents

\* C4: once a room is inactive, no step changes its speakers, listeners,
\* raisedHands or reactions.
ClosedRoomFrozen ==
    [][\A r \in DOMAIN rooms :
          ~rooms[r].active =>
              /\ Membership(rooms', r) = Membership(rooms, r)
              /\ rooms'[r].reactions = rooms[r].reactions]_vars

\* C5: after n addReaction calls on a room, reactions is exactly the last
\* min(n, 100) appended records in arrival order.
ReactionsAreLastCalls ==
    \A r \in DOMAIN rooms :
        LET n == Len(calls[r])
            k == Min(n, MaxReactions)
        IN /\ rooms[r].reactions = SubSeq(calls[r], n - k + 1, n)
           /\ Len(rooms[r].reactions) <= MaxReactions

\* C5 witness: more calls than the cap were made, so the oldest were evicted,
\* and the most recent call carried the non-default arguments.
ReactionsEvicted ==
    /\ last.ev = "addReaction"
    /\ Len(calls[1]) > MaxReactions
    /\ calls[1][Len(calls[1])].type = "heart"

\* C6: a disconnect of a bound connection emits exactly one notification to
\* the bound room: room-closed for the host (room then inactive), user-left
\* otherwise (active flag unchanged).
DisconnectEmitsExactlyOne ==
    [][\A c \in Conns :
          (Handled(c) /\ last'.ev = "disconnect" /\ Authenticated(c) /\ Bound(c)) =>
              LET r == currentRoom[c]
              IN /\ Len(out') = 1
                 /\ out'[1].kind = "room"
                 /\ out'[1].to = r
                 /\ IF currentUser[c] = rooms[r].hostFid
                    THEN out'[1].ev = "room-closed" /\ ~rooms'[r].active
                    ELSE out'[1].ev = "user-left"
                         /\ rooms'[r].active = rooms[r].active]_vars

\* C7: a room is closed exactly once: its active flag never returns to true
\* and room-closed is emitted at most once per room.
RoomClosedOnce ==
    /\ [](\A r \in DOMAIN rooms : closedEmits[r] <= 1)
    /\ [][\A r \in DOMAIN rooms : ~rooms[r].active => ~rooms'[r].active]_vars

\* C8: an unauthenticated connection drops every event other than
\* authenticate: nothing is emitted, nothing changes, no media call is made.
GatedEvents ==
    { "create-room", "join-room", "raise-hand", "lower-hand",
      "promote-to-speaker", "demote-speaker", "toggle-mute",
      "connect-transport", "start-consuming", "send-reaction" }

UnauthenticatedDropsAll ==
    [][\A c \in Conns :
          (Handled(c) /\ last'.ev \in GatedEvents /\ ~Authenticated(c)) =>
              /\ out' = << >>
              /\ rooms' = rooms
              /\ pending' = pending
              /\ UNCHANGED connVars
              /\ UNCHANGED mediaVars]_vars

\* C9: promote-to-speaker or demote-speaker from a bound connection that is
\* not the room's host sends the caller an error, broadcasts nothing and
\* leaves the room's membership unchanged.
NonHostPromoteRejected ==
    [][\A c \in Conns :
          (/\ Handled(c)
           /\ last'.ev \in {"promote-to-speaker", "demote-speaker"}
           /\ Authenticated(c)
           /\ Bound(c)
           /\ currentUser[c] # rooms[currentRoom[c]].hostFid) =>
              /\ rooms' = rooms
              /\ Len(out') = 1
              /\ out'[1].ev = "error"
              /\ out'[1].kind = "caller"
              /\ out'[1].rcpt = {c}]_vars

\* C9 witness: a bound non-host has just tried to promote an identity that
\* is not a speaker of its room.
NonHostTriedPromotion ==
    /\ last.ev = "promote-to-speaker"
    /\ Authenticated(last.conn)
    /\ Bound(last.conn)
    /\ currentUser[last.conn] # rooms[currentRoom[last.conn]].hostFid
    /\ last.fid \notin rooms[currentRoom[last.conn]].speakers

\* The toggle-mute just handled came from a speaker without a producer.
MuteWithoutProducer ==
    /\ last.ev = "toggle-mute"
    /\ Authenticated(last.conn)
    /\ Bound(last.conn)
    /\ currentUser[last.conn] \in rooms[currentRoom[last.conn]].speakers
    /\ producers[currentUser[last.conn]] = "none"

\* C10 as stated: toggle-mute by a speaker without a producer sends the
\* caller the error "Producer not found" and emits no user-muted.
MuteWithoutProducerSaysNotFound ==
    MuteWithoutProducer =>
        /\ Len(out) = 1
        /\ out[1].ev = "error"
        /\ out[1].kind = "caller"
        /\ out[1].info = "Producer not found"

\* C10 amended: toggle-mute by a speaker without a producer sends the caller
\* the error "Failed to toggle mute" and emits no user-muted to the room.
MuteWithoutProducerFails ==
    MuteWithoutProducer =>
        /\ out = << toCaller(status, last.conn, "error", "-", "Failed to toggle mute") >>
        /\ "user-muted" \notin OutEvents
        /\ \A p \in pending[last.conn] : p.op # "toggle-mute"

\* C10 witness: a speaker without a producer has just issued toggle-mute.
SpeakerMutedWithoutProducer ==
    MuteWithoutProducer /\ out # << >>

\* The asynchronous media calls' completions.
Completions == {"toggle-mute-done", "start-consuming-done", "connect-transport-done"}

\* C11: when an asynchronous media call of a connection completes after that
\* connection has disconnected, no notification reaches anyone: no user-muted
\* goes to the room and nothing goes to the torn-down connection.
StaleCompletionEmitsNothing ==
    (last.ev \in Completions /\ status[last.conn] = "closed")
        => \A i \in DOMAIN out : out[i].rcpt = {}

\* The last step was a disconnect in which stopBroadcasting was called and threw.
StopFailed ==
    /\ last.ev = "disconnect"
    /\ last.threw
    /\ last.room # NoRoom

\* C12: when stopBroadcasting fails during the disconnect of a bound
\* connection, a host's room is still closed with room-closed emitted and a
\* non-host's user-left is still emitted to the room.
StopFailureStillSignals ==
    StopFailed =>
        IF last.flag
        THEN ~rooms[last.room].active /\ "room-closed" \in OutEvents
        ELSE "user-left" \in OutEvents

\* C13: every notification addressed to a room is delivered to exactly the
\* live connections whose bound room is that room; a connection that has
\* rebound to another room no longer receives the earlier room's notifications.
RoomNotificationsReachBoundOnly ==
    \A i \in DOMAIN out :
        out[i].kind = "room" =>
            out[i].rcpt = { c \in Conns : Live(status, c) /\ currentRoom[c] = out[i].to }

\* The step just taken handled create-room of an authenticated connection
\* with a non-empty string name.
CreatedRoom(c) ==
    /\ Handled(c)
    /\ last'.ev = "create-room"
    /\ ~last'.flag
    /\ Authenticated(c)

\* C14: create-room from an authenticated connection with a non-empty string
\* name adds one room with an id no room had, hostFid = caller, speakers =
\* {caller}, no listeners, no raised hands, active; binds the session to it;
\* emits joined-room (role host, the serialized room) to the caller and
\* room-created to all connections.
CreateRoomEffects ==
    [][\A c \in Conns :
          CreatedRoom(c) =>
              LET fid == currentUser[c]
                  id == rooms'[Len(rooms')].id
                  room == [ id |-> id, hostFid |-> fid, speakers |-> {fid},
                            listeners |-> {}, raisedHands |-> {},
                            reactions |-> << >>, active |-> TRUE ]
              IN /\ rooms' = Append(rooms, room)
                 /\ \A r \in DOMAIN rooms : rooms[r].id # id
                 /\ currentRoom' = [currentRoom EXCEPT ![c] = id]
                 /\ currentUser' = currentUser
                 /\ \E i \in DOMAIN out' :
                       /\ out'[i].ev = "joined-room"
                       /\ out'[i].kind = "caller"
                       /\ out'[i].rcpt = {c}
                       /\ out'[i].info = "host"
                       /\ out'[i].room = serializeRoom(room)
                 /\ \E i \in DOMAIN out' :
                       /\ out'[i].ev = "room-created"
                       /\ out'[i].kind = "all"
                       /\ out'[i].rcpt = { d \in Conns : Live(status, d) }
                       /\ out'[i].room = serializeRoom(room)
                 /\ Len(out') = 2]_vars

\* C14 witness: a second room has just been created by create-room.
SecondRoomCreated ==
    /\ last.ev = "create-room"
    /\ ~last.flag
    /\ Authenticated(last.conn)
    /\ Len(rooms) = 2

\* The step just taken handled join-room of an authenticated connection for
\* an existing active room.
JoinedRoom(c) ==
    /\ Handled(c)
    /\ last'.ev = "join-room"
    /\ Authenticated(c)
    /\ joinable(rooms, last'.room)

\* C15: join-room on an existing active room by an identity already in its
\* speakers replies joined-room and broadcasts user-joined with role speaker
\* and leaves the identity in speakers; for any other identity the role is
\* listener in both and the identity is added to listeners.
JoinRolePreserved ==
    [][\A c \in Conns :
          JoinedRoom(c) =>
              LET fid == currentUser[c]
                  r == last'.room
                  role == IF fid \in rooms[r].speakers THEN "speaker" ELSE "listener"
              IN /\ Len(out') = 2
                 /\ out'[1].ev = "joined-room" /\ out'[1].info = role
                 /\ out'[2].ev = "user-joined" /\ out'[2].info = role
                 /\ out'[2].fid = fid
                 /\ rooms'[r].speakers = rooms[r].speakers
                 /\ role = "listener" => fid \in rooms'[r].listeners]_vars

\* C15 witness: an identity that speaks in the room has just joined it.
SpeakerJoined ==
    /\ last.ev = "join-room"
    /\ Len(out) = 2
    /\ out[1].info = "speaker"
    /\ currentUser[last.conn] \in rooms[last.room].speakers

\* The step just taken handled join-room of connection c naming a room that
\* does not exist or is closed.
JoinedNoRoom(c) ==
    /\ Handled(c)
    /\ last'.ev = "join-room"
    /\ IF last'.room \in DOMAIN rooms THEN ~rooms[last'.room].active ELSE TRUE

\* C16: join-room naming a room that does not exist or is closed is dropped:
\* the session binding and every room are unchanged, no user-joined is
\* broadcast and the caller is sent no notification.
JoinMissingRoomSilent ==
    [][\A c \in Conns :
          JoinedNoRoom(c) =>
              /\ currentRoom' = currentRoom
              /\ rooms' = rooms
              /\ out' = << >>]_vars

\* C16 as the code has it: the binding and every room are unchanged and no
\* user-joined is broadcast, but an authenticated caller is sent the error
\* "Room not found or inactive"; an unauthenticated caller is sent nothing.
JoinMissingRoomReported ==
    [][\A c \in Conns :
          JoinedNoRoom(c) =>
              /\ currentRoom' = currentRoom
              /\ currentUser' = currentUser
              /\ rooms' = rooms
              /\ out' = IF Authenticated(c)
                        THEN << toCaller(status, c, "error", "-",
                                         "Room not found or inactive") >>
                        ELSE << >>]_vars

\* C16 witness: an authenticated connection has just tried to join a closed room.
JoinedClosedRoom ==
    /\ last.ev = "join-room"
    /\ Authenticated(last.conn)
    /\ hasRoom(rooms, last.room)
    /\ ~rooms[last.room].active
    /\ Len(out) = 1
    /\ out[1].ev = "error"

\* C17: listRooms returns exactly the rooms whose active flag is true: a room
\* is listed from its creation until closeRoom is called on it and never
\* afterwards, and no room ever leaves the registry, so a closed room is still
\* returned by getRoom.
ListingFollowsActive ==
    /\ [](listRooms(rooms) = { r \in DOMAIN rooms : rooms[r].active })
    /\ [][/\ \A r \in DOMAIN rooms :
                /\ hasRoom(rooms', r)
                /\ rooms'[r].id = rooms[r].id
                /\ r \in listRooms(rooms') <=>
                      /\ r \in listRooms(rooms)
                      /\ ~(last'.ev = "closeRoom" /\ last'.room = r)
          /\ \A r \in DOMAIN rooms' \ DOMAIN rooms :
                /\ last'.ev = "createRoom"
                /\ r \in listRooms(rooms')]_vars

\* C17 witness: closeRoom has just closed a listed room, which is still registered.
ClosedRoomUnlisted ==
    /\ last.ev = "closeRoom"
    /\ last.flag
    /\ hasRoom(rooms, last.room)
    /\ last.room \notin listRooms(rooms)
    /\ listRooms(rooms) # {}

\* C18: closeRoom on an already-closed room or on an unregistered id leaves
\* the whole registry unchanged and raises no error, and no step takes a
\* room's active flag from false back to true.
CloseRoomIdempotent ==
    [][/\ (/\ last'.ev = "closeRoom"
           /\ handled' # handled
           /\ IF hasRoom(rooms, last'.room) THEN ~rooms[last'.room].active ELSE TRUE)
          => (rooms' = rooms /\ ~last'.threw)
       /\ \A r \in DOMAIN rooms :
             ~rooms[r].active => (hasRoom(rooms', r) /\ ~rooms'[r].active)]_vars

\* C18 witness: closeRoom has just been called on a room that was closed already.
ClosedTwice ==
    /\ last.ev = "closeRoom"
    /\ ~last.flag
    /\ hasRoom(rooms, last.room)
    /\ ~rooms[last.room].active

\* Which of a room's three sets hold fid.
MemberOf(rs, r, fid) ==
    << fid \in rs[r].speakers, fid \in rs[r].listeners, fid \in rs[r].raisedHands >>

\* The step just taken called op on a registered room for an identity other
\* than the room's host.
CalledForGuest(op) ==
    /\ last'.ev = op
    /\ handled' # handled
    /\ hasRoom(rooms, last'.room)
    /\ last'.fid # rooms[last'.room].hostFid

\* C19: for a room with host H and an identity L other than H, addSpeaker
\* leaves L in speakers and in neither listeners nor raisedHands, removeSpeaker
\* leaves L in listeners and not in speakers, and neither changes which of the
\* room's sets hold H.
SpeakerRoundTrip ==
    [][/\ CalledForGuest("addSpeaker") =>
             LET r == last'.room
                 L == last'.fid
                 H == rooms[r].hostFid
             IN /\ MemberOf(rooms', r, L) = << TRUE, FALSE, FALSE >>
                /\ MemberOf(rooms', r, H) = MemberOf(rooms, r, H)
       /\ CalledForGuest("removeSpeaker") =>
             LET r == last'.room
                 L == last'.fid
                 H == rooms[r].hostFid
             IN /\ L \in rooms'[r].listeners
                /\ L \notin rooms'[r].speakers
                /\ MemberOf(rooms', r, H) = MemberOf(rooms, r, H)]_vars

\* C19 witness: removeSpeaker has just demoted a speaker other than the host.
GuestDemoted ==
    /\ last.ev = "removeSpeaker"
    /\ last.flag
    /\ hasRoom(rooms, last.room)
    /\ last.fid # rooms[last.room].hostFid
    /\ last.fid \in rooms[last.room].listeners

\* The step just taken was a direct call of the broadcaster's method op.
Called(op) == last'.ev = op /\ handled' # handled

\* C20: a stopBroadcasting(fid) that returns leaves fid without producer and
\* without consumers and touches nobody else's; called with nothing registered
\* for fid it changes nothing and raises no error; toggleMute for an identity
\* without producer fails with "Producer not found"; and only handleProducer
\* gives an identity a producer again.
StopBroadcastingReleases ==
    [][/\ (Called("stopBroadcasting") /\ ~last'.threw) =>
             /\ producers'[last'.fid] = "none"
             /\ consumers'[last'.fid] = 0
             /\ \A f \in Fids \ {last'.fid} :
                   producers'[f] = producers[f] /\ consumers'[f] = consumers[f]
       /\ (/\ Called("stopBroadcasting")
           /\ producers[last'.fid] = "none"
           /\ consumers[last'.fid] = 0) =>
             /\ ~last'.threw
             /\ out' = << >>
             /\ UNCHANGED mediaVars
       /\ (Called("toggleMute") /\ producers[last'.fid] = "none") =>
             /\ last'.threw
             /\ out' = << rejection("Producer not found") >>
             /\ UNCHANGED mediaVars
       /\ \A f \in Fids :
             (producers[f] = "none" /\ producers'[f] # "none") =>
                 (last'.ev = "handleProducer" /\ last'.fid = f)]_vars

\* C20 witness: stopBroadcasting has just released a producer or consumers.
BroadcastStopped ==
    /\ last.ev = "stopBroadcasting"
    /\ last.flag
    /\ ~last.threw
    /\ producers[last.fid] = "none"
    /\ consumers[last.fid] = 0

\* C21: the disconnect of a connection that is bound to no room (it never
\* authenticated, or authenticated and never joined or created a room) raises
\* no exception and emits nothing.
UnboundDisconnectIsQuiet ==
    (last.ev = "disconnect" /\ ~Bound(last.conn))
        => (~last.threw /\ out = << >>)

\* C22: when the disconnect of an authenticated connection has completed,
\* bound to a room or not and host or not, stopBroadcasting has released the
\* identity's producer and consumers.
DisconnectReleasesMedia ==
    (last.ev = "disconnect" /\ Authenticated(last.conn) /\ ~last.threw)
        => /\ producers[currentUser[last.conn]] = "none"
           /\ consumers[currentUser[last.conn]] = 0

\* The events whose handlers need a bound room.
RoomScopedEvents ==
    {"raise-hand", "lower-hand", "promote-to-speaker", "demote-speaker",
     "toggle-mute", "start-consuming", "send-reaction"}

\* C23: a room-scoped event of an authenticated connection with no bound room
\* is dropped: nothing is emitted, no asynchronous call is started, no room
\* changes and the session stays unbound.
UnboundDropsRoomScoped ==
    [][\A c \in Conns :
          (/\ Handled(c)
           /\ last'.ev \in RoomScopedEvents
           /\ currentUser[c] # NoUser
           /\ currentRoom[c] = NoRoom)
          => /\ out' = << >>
             /\ rooms' = rooms
             /\ pending' = pending
             /\ UNCHANGED connVars
             /\ UNCHANGED mediaVars]_vars

\* C23 witness: an authenticated connection with no bound room has just sent a
\* reaction while some room is active.
UnboundSentReaction ==
    /\ last.ev = "send-reaction"
    /\ last.flag
    /\ last.conn \in Conns
    /\ currentUser[last.conn] # NoUser
    /\ currentRoom[last.conn] = NoRoom
    /\ listRooms(rooms) # {}

\* The step just taken handled an event of c with invalid input that passed
\* the handler's session guard: create-room of an authenticated connection
\* without a non-empty string name, or send-reaction of a bound connection
\* with a type outside the five reaction types.
InvalidInput(c) ==
    /\ Handled(c)
    /\ \/ last'.ev = "create-room" /\ last'.flag /\ currentUser[c] # NoUser
       \/ /\ last'.ev = "send-reaction"
          /\ ~last'.flag
          /\ currentUser[c] # NoUser
          /\ currentRoom[c] # NoRoom

\* C24: invalid input is reported and has no effect: the handler raises no
\* exception, emits one error to the caller and nothing else, creates or
\* changes no room and leaves the session's identity and bound room as they
\* were.
InvalidInputReported ==
    [][\A c \in Conns :
          InvalidInput(c) =>
              /\ ~last'.threw
              /\ Len(out') = 1
              /\ out'[1].ev = "error"
              /\ out'[1].kind = "caller"
              /\ out'[1].rcpt = {c}
              /\ rooms' = rooms
              /\ UNCHANGED connVars]_vars

\* The room an event of connection c is about: the room joined or created
\* by join-room or create-room, otherwise the room c is bound to.
TargetRoom(c) ==
    IF last'.ev \in {"join-room", "create-room"}
    THEN currentRoom'[c]
    ELSE currentRoom[c]

\* C25: an event handled for a connection leaves every room other than its
\* target as it was and addresses no room notification to another room; this
\* includes the room the connection was bound to before a rebind.
OneRoomPerEvent ==
    [][(handled' # handled /\ last'.conn \in Conns) =>
          LET target == TargetRoom(last'.conn)
          IN /\ \/ rooms' = rooms
                \/ \A r \in DOMAIN rooms : r # target => rooms'[r] = rooms[r]
             /\ \A i \in DOMAIN out' :
                   out'[i].kind = "room" => out'[i].to = target]_vars

\* C25 witness: a connection that was in another room has just joined a room.
ReboundByJoin ==
    /\ last.ev = "join-room"
    /\ Len(out) = 2
    /\ Cardinality(joined[last.conn]) = 2

\* C26: room notifications agree with the room's state when they are emitted:
\* hand-raised names an identity in raisedHands, user-promoted one in speakers
\* and user-demoted one not in speakers.
NotificationsAgreeWithState ==
    \A i \in DOMAIN out :
        LET e == out[i] IN
        /\ e.ev = "hand-raised" => e.fid \in rooms[e.to].raisedHands
        /\ e.ev = "user-promoted" => e.fid \in rooms[e.to].speakers
        /\ e.ev = "user-demoted" => e.fid \notin rooms[e.to].speakers

\* C27: once a connection has an identity, no later event changes it; the
\* identity compared with hostFid by promote-to-speaker and demote-speaker is
\* the one of the first authenticate.
IdentityFixedOnceSet ==
    [][\A c \in Conns :
          currentUser[c] # NoUser => currentUser'[c] = currentUser[c]]_vars

\* C28: every active room has a live connection that is bound to it and
\* authenticated as its hostFid.
NoActiveRoomOrphaned ==
    \A r \in DOMAIN rooms :
        rooms[r].active =>
            \E c \in Conns :
                /\ Live(status, c)
                /\ currentRoom[c] = r
                /\ currentUser[c] = rooms[r].hostFid

\* C29: user-muted for an identity is broadcast to a room only if the identity
\* is a speaker of that room at that moment and the room is the one the
\* session was bound to when toggle-mute was received.
MutedOnlyForBoundSpeaker ==
    \A i \in DOMAIN out :
        out[i].ev = "user-muted" =>
            /\ out[i].fid \in rooms[out[i].to].speakers
            /\ out[i].to = last.room

\* C30: after a non-host connection has disconnected and user-left has been
\* emitted, its identity is in neither listeners nor raisedHands of the room
\* unless another live connection with that identity is bound to the room.
DepartedLeavesMembership ==
    (/\ last.ev = "disconnect"
     /\ ~last.flag
     /\ "user-left" \in OutEvents)
    => LET c == last.conn
           fid == currentUser[c]
           r == last.room
       IN (\A d \in Conns \ {c} :
              ~(Live(status, d) /\ currentUser[d] = fid /\ currentRoom[d] = r))
          => fid \notin rooms[r].listeners \cup rooms[r].raisedHands

==============================================================================
